---------------------------- MODULE Spec2Model ----------------------------
(***************************************************************************)
(* The component endpoints of rf-cascade-tool-db                           *)
(* (src/app/api/endpoints/components.py) as a state machine.               *)
(*                                                                         *)
(* The four tables are the committed contents of the database.  Every     *)
(* request runs in its own transaction (`with Session() as session,       *)
(* session.begin()`) and is carried by one of the workers in Procs.       *)
(* The database is read committed: a query sees the rows committed so     *)
(* far and holds no lock.  A handler that only writes (one statement,     *)
(* then the commit at the end of the `with` block) is one step: its       *)
(* flushed rows are invisible to the others until the commit, and a       *)
(* statement of another transaction that conflicts with them waits for    *)
(* it, so the step takes place at the commit.  A handler that reads and   *)
(* then writes what it computed from the read (update_component,          *)
(* post_component_version) is two steps, and other requests may commit    *)
(* in between.                                                            *)
(***************************************************************************)
EXTENDS Integers, FiniteSets, TLC

\* Bounds of the model: the number of rows the id sequences of ComponentData
\* and ComponentVersion may hand out.
MaxDataId == 1
MaxVersionId == 2

\* The workers that serve requests concurrently.
Procs == {"w1", "w2"}

\* The ids a request may name in its path or body; the id sequences of
\* ComponentType and Component stop where they would leave these sets.
TypeIds == {1, 2}
ComponentIds == {1, 2}

\* The other values a request body may carry.
TypeStrings == {"amp", "filter"}
Names == {"lna"}
Payloads == {"s2p"}

\* HTTP status codes used by the handlers.
HTTP_OK == 200
CREATED == 201
NOT_FOUND == 404
CONFLICT == 409
INTERNAL_SERVER_ERROR == 500

VARIABLES
    component_types,     \* committed rows of ComponentType: [id, type]
    components,          \* committed rows of Component: [id, type_id, name]
    component_data,      \* committed rows of ComponentData: [id, component_id, payload]
    component_versions,  \* committed rows of ComponentVersion:
                         \*   [id, component_id, version, is_verified, payload]
    seq,                 \* the autoincrement id sequence of each table
    req,                 \* per worker: the request it serves and how far it got
    posted               \* history: the components created with 201 and neither
                         \*   bulk-deleted nor updated since

tables == <<component_types, components, component_data, component_versions>>
vars == <<component_types, components, component_data, component_versions,
          seq, req, posted>>

-----------------------------------------------------------------------------
(* Request bodies (the pydantic input models) and rows (the ORM models).   *)

NoBody == [type |-> "", type_id |-> 0, name |-> "", component_id |-> 0, payload |-> ""]

ComponentTypeInputModel == {[NoBody EXCEPT !.type = s] : s \in TypeStrings}

ComponentInputModel ==
    {[NoBody EXCEPT !.type_id = t, !.name = n] : t \in TypeIds, n \in Names}

ComponentDataInputModel ==
    {[NoBody EXCEPT !.component_id = c, !.payload = d] :
        c \in ComponentIds, d \in Payloads}

ComponentVersionInputModel == {[NoBody EXCEPT !.payload = d] : d \in Payloads}

NoRow == [id |-> 0]

\* ComponentType(**body.model_dump()), with the id the flush assigns
ComponentType(id, body) == [id |-> id, type |-> body.type]

\* Component(**body.model_dump()), with the id the flush assigns
Component(id, body) == [id |-> id, type_id |-> body.type_id, name |-> body.name]

\* ComponentData(**body.model_dump()): component_id is the body's, the path's is unused
ComponentData(id, body) ==
    [id |-> id, component_id |-> body.component_id, payload |-> body.payload]

\* ComponentVersion(**body.model_dump(), component_id=..., is_verified=False, version=...)
ComponentVersion(id, body, component_id, version) ==
    [id |-> id, component_id |-> component_id, version |-> version,
     is_verified |-> FALSE, payload |-> body.payload]

-----------------------------------------------------------------------------
(* The transaction of a request.                                           *)

\* The writes a transaction has flushed: the rows it inserts and the rows it
\* deletes (an UPDATE deletes the old row and inserts the new one).
NoWrite ==
    [ins_types |-> {}, ins_components |-> {}, ins_data |-> {}, ins_versions |-> {},
     del_types |-> {}, del_components |-> {}, del_data |-> {}, del_versions |-> {}]

Idle ==
    [op |-> "idle", pc |-> "idle", path_id |-> 0, body |-> NoBody, version |-> 0,
     write |-> NoWrite, status |-> 0, row |-> NoRow, list |-> {}, num_deleted |-> 0]

\* A request that has been received: its handler, path parameter and body.
Request(op, path_id, body) ==
    [Idle EXCEPT !.op = op, !.path_id = path_id, !.body = body]

\* The request once its handler has ended: the response it returns.
Done(r, status) == [r EXCEPT !.pc = "done", !.status = status]

\* No response is waiting to be sent.  Sending a response touches no shared
\* state, so it is taken as the step that follows the end of the handler.
Sent == \A q \in Procs : req[q].pc # "done"

\* Worker p is free to take a request.
Ready(p) == Sent /\ req[p].pc = "idle"

\* The status of a handler that ends without raising
SuccessStatus(op) == IF op = "post_component" THEN CREATED ELSE HTTP_OK

-----------------------------------------------------------------------------
(* The database: the constraints of the schema, and commit.                *)

Ids(rows) == {r.id : r \in rows}

\* unique constraint on ComponentType.type
UniqueViolation(row) == \E t \in component_types : t.type = row.type

\* foreign key Component.type_id -> ComponentType.id, checked on insert and update
TypeForeignKeyViolation(type_id) == type_id \notin Ids(component_types)

\* foreign keys ComponentData.component_id, ComponentVersion.component_id
\* -> Component.id, checked on insert
ComponentForeignKeyViolation(component_id) == component_id \notin Ids(components)

\* the same foreign keys checked on delete of the parent rows (no cascade)
TypeStillReferenced(rows) == \E c \in components : c.type_id \in Ids(rows)

ComponentStillReferenced(rows) ==
    \/ \E d \in component_data : d.component_id \in Ids(rows)
    \/ \E v \in component_versions : v.component_id \in Ids(rows)

\* The tables with the writes w applied.
Apply(w) ==
    [types |-> (component_types \ w.del_types) \cup w.ins_types,
     components |-> (components \ w.del_components) \cup w.ins_components,
     data |-> (component_data \ w.del_data) \cup w.ins_data,
     versions |-> (component_versions \ w.del_versions) \cup w.ins_versions]

\* Committed with the commit left out (a session closed without begin()): the
\* flushed writes are dropped.
NotCommitted(w) == Apply(NoWrite)

\* What the normal exit of `with Session() as session, session.begin()` (in
\* update_component: session.commit()) makes of the flushed writes w.
Committed(w) == Apply(w)

\* The handler of request r ends without raising after flushing w: the
\* transaction commits and the response goes out.
Commit(p, r, w) ==
    LET after == Committed(w)
    IN  /\ component_types' = after.types
        /\ components' = after.components
        /\ component_data' = after.data
        /\ component_versions' = after.versions
        /\ posted' = (posted \ w.del_components)
                        \cup (IF r.op = "post_component" THEN {r.row} ELSE {})
        /\ req' = [req EXCEPT ![p] = Done([r EXCEPT !.write = w], SuccessStatus(r.op))]

\* The handler of request r raises: the transaction rolls back and the
\* response carries the error status.
Raise(p, r, status) ==
    /\ req' = [req EXCEPT ![p] = Done(r, status)]
    /\ UNCHANGED <<tables, posted>>

-----------------------------------------------------------------------------
(* /components                                                             *)

\* GET /components: select(Component), all rows through the response model
get_components(p) ==
    /\ Ready(p)
    /\ Commit(p, [Request("get_components", 0, NoBody) EXCEPT !.list = components],
              NoWrite)
    /\ UNCHANGED seq

\* post_component_write with session.add(component) left out
post_component_write_no_add(component) == NoWrite

\* The writes of session.add(component); session.flush()
post_component_write(component) == [NoWrite EXCEPT !.ins_components = {component}]

\* POST /components: an IntegrityError of the flush becomes a 500
post_component(p) ==
    \E body \in ComponentInputModel :
        LET r == Request("post_component", 0, body)
            component == Component(seq.components + 1, body)
        IN  /\ Ready(p)
            /\ IF TypeForeignKeyViolation(component.type_id)
               THEN /\ Raise(p, r, INTERNAL_SERVER_ERROR)
                    /\ UNCHANGED seq
               ELSE /\ seq.components + 1 \in ComponentIds
                    /\ seq' = [seq EXCEPT !.components = @ + 1]
                    /\ Commit(p, [r EXCEPT !.row = component],
                              post_component_write(component))

\* delete_components_write with a filter left in: only the first component goes
delete_components_write_filtered ==
    [NoWrite EXCEPT !.del_components = {c \in components : c.id = 1}]

\* The writes of session.query(Component).delete(): every row of the table
delete_components_write == [NoWrite EXCEPT !.del_components = components]

\* DELETE /components; an IntegrityError of the statement is not caught and
\* leaves the handler as a 500
delete_components(p) ==
    LET r == Request("delete_components", 0, NoBody)
        w == delete_components_write
    IN  /\ Ready(p)
        /\ IF ComponentStillReferenced(w.del_components)
           THEN Raise(p, r, INTERNAL_SERVER_ERROR)
           ELSE Commit(p, [r EXCEPT !.num_deleted = Cardinality(w.del_components)], w)
        /\ UNCHANGED seq

\* PUT /components/{component_id}, the query: 404 when one_or_none() is None
update_component(p) ==
    \E component_id \in ComponentIds, body \in ComponentInputModel :
        LET r == Request("update_component", component_id, body)
            found == {c \in components : c.id = component_id}
        IN  /\ Ready(p)
            /\ IF found = {}
               THEN Raise(p, r, NOT_FOUND)
               ELSE /\ req' = [req EXCEPT ![p] =
                                 [r EXCEPT !.pc = "read",
                                           !.row = CHOOSE c \in found : TRUE]]
                    /\ UNCHANGED <<tables, posted>>
            /\ UNCHANGED seq

\* SetAttrs as a patch that skips the type reference
SetAttrsPartial(component, body) == [component EXCEPT !.name = body.name]

\* for field, value in body.model_dump().items(): setattr(component, field, value)
SetAttrs(component, body) == Component(component.id, body)

\* The row after the UPDATE the flush emits: only the columns whose value
\* differs from the loaded one are set, on the row as it is committed now.
UpdatedRow(current, loaded, new) ==
    [id |-> current.id,
     type_id |-> IF new.type_id # loaded.type_id THEN new.type_id ELSE current.type_id,
     name |-> IF new.name # loaded.name THEN new.name ELSE current.name]

\* PUT /components/{component_id}, setattr, flush and commit: no UPDATE is
\* emitted when nothing changed; an UPDATE that matches no row (StaleDataError)
\* is not caught and a foreign-key violation is, both end as a 500
update_component_flush(p) ==
    LET r == req[p]
        loaded == r.row
        new == SetAttrs(loaded, r.body)
        current == {c \in components : c.id = loaded.id}
    IN  /\ Sent /\ r.pc = "read" /\ r.op = "update_component"
        /\ IF new = loaded
           THEN Commit(p, r, NoWrite)
           ELSE IF current = {}
           THEN Raise(p, r, INTERNAL_SERVER_ERROR)
           ELSE IF new.type_id # loaded.type_id /\ TypeForeignKeyViolation(new.type_id)
           THEN Raise(p, r, INTERNAL_SERVER_ERROR)
           ELSE Commit(p, [r EXCEPT !.row = new],
                       [NoWrite EXCEPT
                          !.del_components = current,
                          !.ins_components =
                             {UpdatedRow(c, loaded, new) : c \in current}])
        /\ UNCHANGED seq

-----------------------------------------------------------------------------
(* /components/{component_id}/data and /components/{component_id}/versions *)

\* POST /components/{component_id}/data: the row is built from the body alone;
\* an IntegrityError of the flush becomes a 500
post_component_data(p) ==
    \E component_id \in ComponentIds, body \in ComponentDataInputModel :
        LET r == Request("post_component_data", component_id, body)
            component_data_row == ComponentData(seq.data + 1, body)
        IN  /\ Ready(p)
            /\ IF ComponentForeignKeyViolation(component_data_row.component_id)
               THEN /\ Raise(p, r, INTERNAL_SERVER_ERROR)
                    /\ UNCHANGED seq
               ELSE /\ seq.data < MaxDataId
                    /\ seq' = [seq EXCEPT !.data = @ + 1]
                    /\ Commit(p, [r EXCEPT !.row = component_data_row],
                              [NoWrite EXCEPT !.ins_data = {component_data_row}])

\* GET /components/{component_id}/versions: 404 without the component, else
\* component.component_versions
get_component_versions(p) ==
    \E component_id \in ComponentIds :
        LET r == Request("get_component_versions", component_id, NoBody)
        IN  /\ Ready(p)
            /\ IF component_id \notin Ids(components)
               THEN Raise(p, r, NOT_FOUND)
               ELSE Commit(p, [r EXCEPT !.list =
                                 {v \in component_versions :
                                     v.component_id = component_id}],
                           NoWrite)
            /\ UNCHANGED seq

Maximum(S) == CHOOSE m \in S : \A x \in S : x <= m

\* func.max(ComponentVersion.version) filtered by component_id; None counts as 0
MaxVersion(component_id) ==
    LET found == {v.version : v \in {v \in component_versions :
                                        v.component_id = component_id}}
    IN  IF found = {} THEN 0 ELSE Maximum(found)

\* NextVersion with the filter on component_id left out
NextVersionUnfiltered(component_id) ==
    (IF component_versions = {} THEN 0
     ELSE Maximum({v.version : v \in component_versions})) + 1

\* version = version + 1
NextVersion(component_id) == MaxVersion(component_id) + 1

\* POST /components/{component_id}/versions, the query: the next version number
\* is computed from the committed rows
post_component_version(p) ==
    \E component_id \in ComponentIds, body \in ComponentVersionInputModel :
        /\ Ready(p)
        /\ req' = [req EXCEPT ![p] =
                     [Request("post_component_version", component_id, body) EXCEPT
                        !.pc = "read", !.version = NextVersion(component_id)]]
        /\ UNCHANGED <<tables, seq, posted>>

\* post_component_version_write as an overwrite of the component's versions
post_component_version_write_replace(component_version) ==
    [NoWrite EXCEPT
       !.ins_versions = {component_version},
       !.del_versions = {v \in component_versions :
                            v.component_id = component_version.component_id}]

\* The writes of session.add(component_version); session.flush()
post_component_version_write(component_version) ==
    [NoWrite EXCEPT !.ins_versions = {component_version}]

\* POST /components/{component_id}/versions, add, flush and commit: an
\* IntegrityError of the flush becomes a 500
post_component_version_flush(p) ==
    LET r == req[p]
        component_version ==
            ComponentVersion(seq.versions + 1, r.body, r.path_id, r.version)
    IN  /\ Sent /\ r.pc = "read" /\ r.op = "post_component_version"
        /\ IF ComponentForeignKeyViolation(component_version.component_id)
           THEN /\ Raise(p, r, INTERNAL_SERVER_ERROR)
                /\ UNCHANGED seq
           ELSE /\ seq.versions < MaxVersionId
                /\ seq' = [seq EXCEPT !.versions = @ + 1]
                /\ Commit(p, [r EXCEPT !.row = component_version],
                          post_component_version_write(component_version))

-----------------------------------------------------------------------------
(* /components/types                                                       *)

\* GET /components/types
get_component_types(p) ==
    /\ Ready(p)
    /\ Commit(p, [Request("get_component_types", 0, NoBody) EXCEPT
                    !.list = component_types],
              NoWrite)
    /\ UNCHANGED seq

\* TypeErrorStatus without the "UniqueViolation" test
TypeErrorStatusGeneric(err_msg) == INTERNAL_SERVER_ERROR

\* The status post_component_type gives an IntegrityError with message err_msg
TypeErrorStatus(err_msg) ==
    IF err_msg = "UniqueViolation" THEN CONFLICT ELSE INTERNAL_SERVER_ERROR

\* POST /components/types
post_component_type(p) ==
    \E body \in ComponentTypeInputModel :
        LET r == Request("post_component_type", 0, body)
            component_type == ComponentType(seq.types + 1, body)
        IN  /\ Ready(p)
            /\ IF UniqueViolation(component_type)
               THEN /\ Raise(p, r, TypeErrorStatus("UniqueViolation"))
                    /\ UNCHANGED seq
               ELSE /\ seq.types + 1 \in TypeIds
                    /\ seq' = [seq EXCEPT !.types = @ + 1]
                    /\ Commit(p, [r EXCEPT !.row = component_type],
                              [NoWrite EXCEPT !.ins_types = {component_type}])

\* The writes of session.query(ComponentType).delete(): every row of the table
delete_component_types_write == [NoWrite EXCEPT !.del_types = component_types]

\* DELETE /components/types; an IntegrityError of the statement is not caught
\* and leaves the handler as a 500
delete_component_types(p) ==
    LET r == Request("delete_component_types", 0, NoBody)
        w == delete_component_types_write
    IN  /\ Ready(p)
        /\ IF TypeStillReferenced(w.del_types)
           THEN Raise(p, r, INTERNAL_SERVER_ERROR)
           ELSE Commit(p, [r EXCEPT !.num_deleted = Cardinality(w.del_types)], w)
        /\ UNCHANGED seq

\* delete_component_type_write with the filter left out
delete_component_type_write_unfiltered(type_id) ==
    [NoWrite EXCEPT !.del_types = component_types]

\* The writes of session.query(ComponentType).filter(ComponentType.id == type_id)
\* .delete()
delete_component_type_write(type_id) ==
    [NoWrite EXCEPT !.del_types = {t \in component_types : t.id = type_id}]

\* DELETE /components/types/{type_id}: 404 when the statement deleted nothing;
\* an IntegrityError of the statement is not caught and leaves the handler as
\* a 500
delete_component_type(p) ==
    \E type_id \in TypeIds :
        LET r == Request("delete_component_type", type_id, NoBody)
            w == delete_component_type_write(type_id)
            num_deleted == Cardinality(w.del_types)
        IN  /\ Ready(p)
            /\ IF TypeStillReferenced(w.del_types)
               THEN Raise(p, r, INTERNAL_SERVER_ERROR)
               ELSE IF num_deleted = 0
               THEN Raise(p, r, NOT_FOUND)
               ELSE Commit(p, [r EXCEPT !.num_deleted = num_deleted], w)
            /\ UNCHANGED seq

-----------------------------------------------------------------------------
\* The response has been sent; the worker takes the next request.
respond(p) ==
    /\ req[p].pc = "done"
    /\ req' = [req EXCEPT ![p] = Idle]
    /\ UNCHANGED <<tables, seq, posted>>

Init ==
    /\ component_types = {}
    /\ components = {}
    /\ component_data = {}
    /\ component_versions = {}
    /\ seq = [types |-> 0, components |-> 0, data |-> 0, versions |-> 0]
    /\ req = [p \in Procs |-> Idle]
    /\ posted = {}

\* Requests are served concurrently.
Next ==
    \E p \in Procs :
        \/ get_components(p)
        \/ post_component(p)
        \/ delete_components(p)
        \/ update_component(p)
        \/ update_component_flush(p)
        \/ post_component_data(p)
        \/ get_component_versions(p)
        \/ post_component_version(p)
        \/ post_component_version_flush(p)
        \/ get_component_types(p)
        \/ post_component_type(p)
        \/ delete_component_types(p)
        \/ delete_component_type(p)
        \/ respond(p)

Spec == Init /\ [][Next]_vars

\* No other worker has a request in hand.
Alone(p) == \A q \in Procs \ {p} : req[q].pc = "idle"

\* Requests are served one after the other: a worker acts only while it is
\* alone.
NextSeq ==
    \E p \in Procs :
        \/ Alone(p) /\ get_components(p)
        \/ Alone(p) /\ post_component(p)
        \/ Alone(p) /\ delete_components(p)
        \/ Alone(p) /\ update_component(p)
        \/ Alone(p) /\ update_component_flush(p)
        \/ Alone(p) /\ post_component_data(p)
        \/ Alone(p) /\ get_component_versions(p)
        \/ Alone(p) /\ post_component_version(p)
        \/ Alone(p) /\ post_component_version_flush(p)
        \/ Alone(p) /\ get_component_types(p)
        \/ Alone(p) /\ post_component_type(p)
        \/ Alone(p) /\ delete_component_types(p)
        \/ Alone(p) /\ delete_component_type(p)
        \/ Alone(p) /\ respond(p)

SpecSeq == Init /\ [][NextSeq]_vars

-----------------------------------------------------------------------------
(* Properties.  A step ends the request of worker p when it leaves p with  *)
(* a response; the response and the request it answers are req'[p].        *)

Ends(p) == req[p].pc # "done" /\ req'[p].pc = "done"

Ended(p, op) == req[p].pc = "done" /\ req[p].op = op

VersionsOf(component_id) ==
    {v \in component_versions : v.component_id = component_id}

\* Every foreign key names an existing row.
RefIntegrity ==
    /\ \A d \in component_data : d.component_id \in Ids(components)
    /\ \A v \in component_versions : v.component_id \in Ids(components)
    /\ \A c \in components : c.type_id \in Ids(component_types)

\* C1: no two committed ComponentVersion rows of one component share a version
\* number (so no two successful version-creation requests for one component
\* were given the same number), also when the requests overlap.
C1_DistinctVersions ==
    \A v1 \in component_versions, v2 \in component_versions :
        (v1.component_id = v2.component_id /\ v1.version = v2.version) => v1 = v2

\* C2: when requests do not overlap, a successful version creation for a
\* component that has n versions, numbered 1..n, returns version n + 1 (above
\* every earlier one, 1 for the first) with is_verified false for that
\* component, and adds exactly that row, whatever the other components have.
C2_SequentialVersions ==
    [][\A p \in Procs :
          (Ends(p) /\ req'[p].op = "post_component_version"
                   /\ req'[p].status = HTTP_OK) =>
             LET row == req'[p].row
                 earlier == VersionsOf(req'[p].path_id)
             IN  /\ {v.version : v \in earlier} = 1..Cardinality(earlier)
                 /\ row.version = Cardinality(earlier) + 1
                 /\ row.is_verified = FALSE
                 /\ row.component_id = req'[p].path_id
                 /\ component_versions' = component_versions \cup {row}]_vars

C2_Witness ==
    \E p \in Procs :
        /\ Ended(p, "post_component_version")
        /\ req[p].status = HTTP_OK
        /\ req[p].row.version = 2

\* C3: no two ComponentType rows share a type string; creating a type whose
\* string is present returns 409 and leaves the table as it is, creating one
\* whose string is absent succeeds and adds exactly one row with that string.
C3_UniqueTypes ==
    [][/\ \A t1 \in component_types', t2 \in component_types' :
             t1.type = t2.type => t1 = t2
       /\ \A p \in Procs :
             (Ends(p) /\ req'[p].op = "post_component_type") =>
                IF \E t \in component_types : t.type = req'[p].body.type
                THEN /\ req'[p].status = CONFLICT
                     /\ component_types' = component_types
                ELSE /\ req'[p].status = HTTP_OK
                     /\ req'[p].row.type = req'[p].body.type
                     /\ req'[p].row \notin component_types
                     /\ component_types' = component_types \cup {req'[p].row}]_vars

C3_Witness ==
    \E p \in Procs :
        /\ Ended(p, "post_component_type")
        /\ req[p].status = CONFLICT
        /\ Cardinality(component_types) = 2

\* C4 as stated: deleting a type by id returns 404 with nothing deleted when
\* the id is absent, and num_deleted = 1 with only that row gone when it is
\* present.
C4_DeleteTypeAlways ==
    [][\A p \in Procs :
          (Ends(p) /\ req'[p].op = "delete_component_type") =>
             IF req'[p].path_id \in Ids(component_types)
             THEN /\ req'[p].status = HTTP_OK
                  /\ req'[p].num_deleted = 1
                  /\ component_types' =
                        {t \in component_types : t.id # req'[p].path_id}
             ELSE /\ req'[p].status = NOT_FOUND
                  /\ req'[p].num_deleted = 0
                  /\ component_types' = component_types]_vars

\* C4 amended: as stated when no Component refers to the type; a type that a
\* Component refers to is not deleted, the request ends as a 500 and the table
\* is left as it is.
C4_DeleteType ==
    [][\A p \in Procs :
          (Ends(p) /\ req'[p].op = "delete_component_type") =>
             IF req'[p].path_id \notin Ids(component_types)
             THEN /\ req'[p].status = NOT_FOUND
                  /\ req'[p].num_deleted = 0
                  /\ component_types' = component_types
             ELSE IF \E c \in components : c.type_id = req'[p].path_id
             THEN /\ req'[p].status = INTERNAL_SERVER_ERROR
                  /\ req'[p].num_deleted = 0
                  /\ component_types' = component_types
             ELSE /\ req'[p].status = HTTP_OK
                  /\ req'[p].num_deleted = 1
                  /\ component_types' =
                        {t \in component_types : t.id # req'[p].path_id}]_vars

C4_Witness ==
    \E p \in Procs :
        /\ Ended(p, "delete_component_type")
        /\ req[p].status = HTTP_OK
        /\ req[p].num_deleted = 1
        /\ component_types # {}

C6_CreatedListed ==
    [][\A p \in Procs :
          /\ (Ends(p) /\ req'[p].op = "post_component"
                      /\ req'[p].status = CREATED) =>
                /\ req'[p].row.type_id = req'[p].body.type_id
                /\ req'[p].row.name = req'[p].body.name
                /\ req'[p].row.id \notin Ids(components)
                /\ req'[p].row \in posted'
          /\ (Ends(p) /\ req'[p].op = "get_components") =>
                /\ req'[p].status = HTTP_OK
                /\ posted \subseteq req'[p].list]_vars

C6_Witness ==
    \E p \in Procs :
        /\ Ended(p, "get_components")
        /\ Cardinality(posted) = 2
        /\ posted \subseteq req[p].list

\* C7: no step removes or changes a committed ComponentData or
\* ComponentVersion row.
C7_AppendOnly ==
    [][/\ component_data \subseteq component_data'
       /\ component_versions \subseteq component_versions']_vars

C7_Witness ==
    \E p \in Procs :
        /\ Ended(p, "delete_components")
        /\ component_data # {}
        /\ Cardinality(component_versions) = 2

C9_ReferentialIntegrity ==
    [][/\ RefIntegrity'
       /\ \A p \in Procs :
             (Ends(p) /\ req'[p].op \in {"post_component_data",
                                          "post_component_version"}
                      /\ req'[p].path_id \notin Ids(components)) =>
                /\ req'[p].status = INTERNAL_SERVER_ERROR
                /\ component_data' = component_data
                /\ component_versions' = component_versions]_vars

====
